---- MODULE Spec2Model ----
(***************************************************************************)
(* Remote migration job engine of the Migration web app:                   *)
(*   app/ssh_runner.py   start_remote_migration, get_job_status  (Proxmox) *)
(*   app/kssh_runner.py  start_kvm_migration, get_job_status, clear_job    *)
(* Each job task (_run) is modelled step by step; every state of the model *)
(* is a state a concurrent poller can observe.                             *)
(***************************************************************************)
EXTENDS Integers, Sequences, FiniteSets, TLC

\* ---------------------------------------------------------------- bounds
MaxJobs == 1          \* job ids issued in one run of Spec and of SpecPoll
MaxPair == 2          \* job ids issued in one run of SpecPair
MaxTime == 2          \* readings of the clock are 0..MaxTime
MaxOut  == 1          \* lines the remote command writes to stdout
MaxErr  == 1          \* lines the remote command writes to stderr
MaxWindow == 1        \* lines the channel holds before the sender must wait

Max(a, b) == IF a >= b THEN a ELSE b

Ids == 1..Max(MaxJobs, MaxPair)
Runners == {"pve", "kvm"}          \* ssh_runner.py, kssh_runner.py
ExitCodes == {0, 17}               \* exit statuses of the remote command
ConnectErrors == {"AuthenticationException", "NoValidConnectionsError", "timeout"}

\* Optional values (Python None): <<>> is None, <<v>> is the value v.
None == <<>>
Some(v) == <<v>>

VARIABLES
    JOBS,        \* JOBS[r]: the ids that are keys of module r's JOBS dict
    rec,         \* rec[j]: the dict created for job j (status, timestamps, exit_code)
    logs,        \* logs[j]: the list object stored under 'logs' of job j
    issued,      \* number of uuids generated so far
    now,         \* last reading of time.time()
    kind,        \* kind[j]: the runner whose closure _run job j executes
    pc,          \* pc[j]: position of job j's task
    client,      \* client[j]: the local `client` of _run
    exc,         \* exc[j]: the exception being handled / propagating in _run
    exit_status, \* exit_status[j]: the local holding recv_exit_status()'s result
    script,      \* script[j]: the local local_script_path ("primary" / "fallback")
    nread,       \* nread[j]: <<stdout lines read, stderr lines read>>
    remote,      \* files present in remote_path on the destination host
    raised,      \* raised[j]: history, <<step, exception type>> of every raise in job j's task
    attempts,    \* attempts[j]: history, <<step, "ok" | "fail">> of the external calls of the task
    poll,        \* the request of the migration-status route being served (its locals)
    proc,        \* proc[j]: the remote command of job j (lines written, channel EOF)
    paramiko,    \* FALSE when `import paramiko` failed (the module global is None)
    call,        \* calls made so far: ids returned by start calls, ids passed to
                 \* clear_job, error of the last start call
    clr,         \* clr[t]: the clear_job call of caller t (position, job_id, error)
    disk,        \* the application host's files: config.json and config.json.tmp
    req,         \* req[t]: the configuration call of request t (position, locals)
    mod,         \* mod[m]: the globals DEFAULT_CONFIG and _current_config of module m
    saved        \* history: calls made, texts handed to json.dump, the value of the
                 \* last completed update of each section

vars == <<JOBS, rec, logs, issued, now, kind, pc, client, exc, exit_status, script,
          nread, remote, raised, attempts, poll, proc, paramiko, call, clr, disk, req, mod, saved>>

Range(seq) == {seq[i] : i \in DOMAIN seq}

\* What no step of a job task touches.
outside == <<poll, proc, paramiko, call, clr, disk, req, mod, saved>>

\* The threads of the web application that run concurrently with the job tasks.
Callers == {"a", "b"}

\* ---------------------------------------------------------------- config.json
MaxCalls == 3

\* The parts of the document that the updaters own. "proxmox" and "kvm" are the
\* proxmox_* and kvm_* keys of the nested dict 'destination'.
Sections == {"source", "proxmox", "kvm", "selected_vms"}
Nested == {"source", "proxmox", "kvm"}

Modules == {"esxi_to_proxmox_migration", "kvm_migration"}

\* DEFAULT_CONFIG of either module: empty strings (0) and an empty list.
DEFAULT_CONFIG == [s \in Sections |-> IF s = "selected_vms" THEN <<>> ELSE 0]

\* A dict held by a request. `alias` is TRUE for DEFAULT_CONFIG.copy(): the copy
\* is shallow, its nested dicts are the ones of the module's DEFAULT_CONFIG.
NoCfg == [alias |-> FALSE, doc |-> DEFAULT_CONFIG]

Updaters ==
    { [module |-> "esxi_to_proxmox_migration", fn |-> "update_esxi_config", section |-> "source"],
      [module |-> "esxi_to_proxmox_migration", fn |-> "update_proxmox_config", section |-> "proxmox"],
      [module |-> "kvm_migration", fn |-> "update_kvm_config", section |-> "kvm"],
      [module |-> "kvm_migration", fn |-> "update_selected_vms", section |-> "selected_vms"] }

\* Calls that only read the file: load_config() and the upload of a job task.
Readers ==
    { [module |-> "esxi_to_proxmox_migration", fn |-> "_load_config", section |-> ""],
      [module |-> "ssh_runner", fn |-> "put", section |-> ""] }

NoKind == [module |-> "", fn |-> "", section |-> ""]

Resting == [pc |-> "rest", kind |-> NoKind, no |-> 0, arg |-> 0, config |-> NoCfg, fd |-> 0,
            seen |-> None, result |-> ""]

\* The directory of the application: the inode each path names (0: no such
\* file) and the content of each inode, a sequence of chunks of text.
NoFiles == [config |-> 0, tmp |-> 0, data |-> [i \in 1..MaxCalls |-> <<>>]]

NoExc == [type |-> "", msg |-> <<>>]

NewJobExitZero(t) ==
    [status |-> "queued", started_at |-> t, finished_at |-> None, exit_code |-> Some(0)]

\* The record literal of start_remote_migration / start_kvm_migration.
NewJob(t) ==
    [status |-> "queued", started_at |-> t, finished_at |-> None, exit_code |-> None]

\* No request is being served.
Idle == [pc |-> "idle", route |-> "", id |-> 0, known |-> FALSE, code |-> 0, error |-> "",
         job |-> <<>>, seen |-> <<>>, body |-> <<>>]

Blank == [status |-> "", started_at |-> 0, finished_at |-> None, exit_code |-> None]

Init ==
    /\ JOBS = [r \in Runners |-> {}]
    /\ rec = [j \in Ids |-> Blank]
    /\ logs = [j \in Ids |-> <<>>]
    /\ issued = 0
    /\ now = 0
    /\ kind = [j \in Ids |-> ""]
    /\ pc = [j \in Ids |-> "unborn"]
    /\ client = [j \in Ids |-> "None"]
    /\ exc = [j \in Ids |-> NoExc]
    /\ exit_status = [j \in Ids |-> None]
    /\ script = [j \in Ids |-> ""]
    /\ nread = [j \in Ids |-> <<0, 0>>]
    /\ remote = {}
    /\ raised = [j \in Ids |-> <<>>]
    /\ attempts = [j \in Ids |-> <<>>]
    /\ poll = Idle
    /\ proc = [j \in Ids |-> [out |-> 0, err |-> 0, eof |-> FALSE, plan |-> None]]
    /\ paramiko \in BOOLEAN
    /\ call = [returned |-> {}, cleared |-> {}, error |-> ""]
    /\ clr = [t \in Callers |-> [pc |-> "idle", id |-> 0, error |-> ""]]
    /\ disk = NoFiles
    /\ req = [t \in Callers |-> Resting]
    /\ mod = [m \in Modules |-> [DEFAULT_CONFIG |-> DEFAULT_CONFIG, _current_config |-> NoCfg]]
    /\ saved = [n |-> 0, texts |-> {}, last |-> DEFAULT_CONFIG]

\* ---------------------------------------------------------------- helpers
\* time.time(): the clock does not run backwards between two readings.
Clock == {t \in now..(now + 1) : t <= MaxTime}

\* f-string formatting of an integer.
Fmt(n) == ToString(n)

\* A log line is a string, written as the sequence of its pieces: an f-string
\* is the concatenation of its literal text and its interpolated values.

\* JOBS[job_id] succeeds iff the id is a key of the runner's dict.
Present(j) == j \in JOBS[kind[j]]

KeyError == [type |-> "KeyError", msg |-> <<"job_id">>]

ScriptName(r) == IF r = "pve" THEN "mscript.py" ELSE "kvm_migration.py"

\* The except clause that takes an exception raised in the try block.
HandlerForRetry(r, e) == "connect"

HandlerFor(r, e) ==
    IF r = "pve" THEN "h_status"
    ELSE IF e.type = "SSHRunnerError" THEN "k_log_runner"
    ELSE IF e.type = "AuthenticationException" THEN "k_log_auth"
    ELSE "k_log_other"

\* The steps of _run that call the transport or the local file system.
Tracked ==
    {"connect", "open_sftp", "resolve", "put_script", "config", "exec",
     "cleanup_open", "rm_script", "rm_config", "cleanup_close", "h_cleanup",
     "close", "h_close", "finally", "finally_exc"}

\* The call of the current step of job j is made and ends with `outcome`; a step
\* of a job task leaves the locals of the route alone.
Note(j, outcome) ==
    /\ attempts' = [attempts EXCEPT ![j] =
                        IF pc[j] \in Tracked THEN Append(@, <<pc[j], outcome>>) ELSE @]
    /\ UNCHANGED outside

\* An exception e raised at the current step of job j, inside the try block.
Raise(j, e) ==
    /\ exc' = [exc EXCEPT ![j] = e]
    /\ pc' = [pc EXCEPT ![j] = HandlerFor(kind[j], e)]
    /\ raised' = [raised EXCEPT ![j] = Append(@, <<pc[j], e.type>>)]
    /\ Note(j, "fail")

\* An exception e raised where no except clause of _run takes it: it leaves the
\* try statement, through the finally clause `fin` when there is one.
Escape(j, e, fin) ==
    /\ exc' = [exc EXCEPT ![j] = e]
    /\ pc' = [pc EXCEPT ![j] = fin]
    /\ raised' = [raised EXCEPT ![j] = Append(@, <<pc[j], e.type>>)]
    /\ Note(j, "fail")

\* The step completes without raising.
Ok(j, l) ==
    /\ pc' = [pc EXCEPT ![j] = l]
    /\ UNCHANGED <<exc, raised>>
    /\ Note(j, "ok")

\* The branch of the current step that makes no call (an `if` not taken).
Skip(j, l) ==
    /\ pc' = [pc EXCEPT ![j] = l]
    /\ UNCHANGED <<exc, raised, attempts>>
    /\ UNCHANGED outside

LogShared(j, lines) == logs' = [k \in Ids |-> logs[k] \o lines]

LogRewrites(j, lines) == logs' = [logs EXCEPT ![j] = lines]

Log(j, lines) == logs' = [logs EXCEPT ![j] = @ \o lines]

\* ---------------------------------------------------------------- start
\* start_remote_migration / start_kvm_migration: create the record, start the
\* thread, return the id.
IssueUnregistered(r, max) ==
    /\ paramiko
    /\ issued < max
    /\ LET j == issued + 1 IN
       \E t \in Clock :
          /\ issued' = j
          /\ now' = t
          /\ rec' = [rec EXCEPT ![j] = NewJob(t)]
          /\ kind' = [kind EXCEPT ![j] = r]
          /\ pc' = [pc EXCEPT ![j] = "set_running"]
    /\ UNCHANGED <<JOBS, logs, client, exc, exit_status, script, nread, remote, raised,
                   attempts>>
    /\ UNCHANGED outside

Issue(r, max) ==
    /\ paramiko
    /\ issued < max
    /\ LET j == issued + 1 IN
       \E t \in Clock :
          /\ issued' = j
          /\ now' = t
          /\ JOBS' = [JOBS EXCEPT ![r] = @ \cup {j}]
          /\ rec' = [rec EXCEPT ![j] = NewJob(t)]
          /\ kind' = [kind EXCEPT ![j] = r]
          /\ pc' = [pc EXCEPT ![j] = "set_running"]
    /\ UNCHANGED <<logs, client, exc, exit_status, script, nread, remote, raised,
                   attempts>>
    /\ UNCHANGED outside

\* One run of the application issues at most MaxJobs ids.
Start(r) == Issue(r, MaxJobs)

StartRaisesAfterInsert(r) ==
    /\ ~paramiko
    /\ issued < MaxJobs
    /\ issued' = issued + 1
    /\ JOBS' = [JOBS EXCEPT ![r] = @ \cup {issued + 1}]
    /\ rec' = [rec EXCEPT ![issued + 1] = NewJob(now)]
    /\ kind' = [kind EXCEPT ![issued + 1] = r]
    /\ call' = [call EXCEPT !.error = "SSHRunnerError"]
    /\ UNCHANGED <<logs, now, pc, client, exc, exit_status, script,
                   nread, remote, raised, attempts, poll, proc, paramiko, clr, disk, req, mod, saved>>

\* if paramiko is None: raise SSHRunnerError("paramiko is not installed ...")
StartRaises(r) ==
    /\ ~paramiko
    /\ call' = [call EXCEPT !.error = "SSHRunnerError"]
    /\ UNCHANGED <<JOBS, rec, logs, issued, now, kind, pc, client, exc, exit_status, script,
                   nread, remote, raised, attempts, poll, proc, paramiko, clr, disk, req, mod, saved>>

\* return job_id: the caller of the start call that created job j gets the id.
StartReturns(j) ==
    /\ j \in (1..issued) \ call.returned
    /\ call' = [call EXCEPT !.returned = @ \cup {j}, !.error = ""]
    /\ UNCHANGED <<JOBS, rec, logs, issued, now, kind, pc, client, exc, exit_status, script,
                   nread, remote, raised, attempts, poll, proc, paramiko, clr, disk, req, mod, saved>>

start_remote_migration == Start("pve")

start_kvm_migration == Start("kvm")

\* _run, first statement (outside the try block): JOBS[job_id]['status'] = 'running'
SetRunning(j) ==
    /\ pc[j] = "set_running"
    /\ IF Present(j)
       THEN /\ rec' = [rec EXCEPT ![j].status = "running"]
            /\ Ok(j, "get_logs")
       ELSE /\ Escape(j, KeyError, "crashed")
            /\ UNCHANGED rec
    /\ UNCHANGED <<JOBS, logs, issued, now, kind, client, exit_status, script, nread, remote>>

\* _run, second statement (outside the try block): logs = JOBS[job_id]['logs']; client = None
GetLogs(j) ==
    /\ pc[j] = "get_logs"
    /\ IF Present(j)
       THEN Ok(j, "connect")
       ELSE Escape(j, KeyError, "crashed")
    /\ UNCHANGED <<JOBS, rec, logs, issued, now, kind, client, exit_status, script, nread, remote>>

\* logs.append("Connecting ..."); client = SSHClient(); client.connect(...);
\* logs.append("SSH connection established.")
Connect(j) ==
    /\ pc[j] = "connect"
    /\ \/ /\ Log(j, <<<<"Connecting to ", "host">>, <<"SSH connection established.">>>>)
          /\ client' = [client EXCEPT ![j] = "connected"]
          /\ Ok(j, "open_sftp")
       \/ \E e \in ConnectErrors :
            /\ Log(j, <<<<"Connecting to ", "host">>>>)
            /\ client' = [client EXCEPT ![j] = "created"]
            /\ Raise(j, [type |-> e, msg |-> <<e>>])
    /\ UNCHANGED <<JOBS, rec, issued, now, kind, exit_status, script, nread, remote>>

\* sftp = client.open_sftp()
OpenSftp(j) ==
    /\ pc[j] = "open_sftp"
    /\ \/ Ok(j, "resolve")
       \/ Raise(j, [type |-> "SSHException", msg |-> <<"open_sftp">>])
    /\ UNCHANGED <<JOBS, rec, logs, issued, now, kind, client, exit_status, script, nread, remote>>

\* The message of the SSHRunnerError raised when no script file exists.
MissingScript(r) ==
    IF r = "pve" THEN <<"Local script not found: ", "primary">>
    ELSE <<"Local KVM migration script not found: ", "primary">>

ResolveScriptFallbackFatal(j) ==
    /\ pc[j] = "resolve"
    /\ script' = [script EXCEPT ![j] = "fallback"]
    /\ Raise(j, [type |-> "SSHRunnerError", msg |-> MissingScript(kind[j])])
    /\ UNCHANGED <<JOBS, rec, logs, issued, now, kind, client, exit_status, nread, remote>>

\* os.path.exists(local_script_path), else the fallback, else SSHRunnerError;
\* logs.append("Uploading ...")
ResolveScript(j) ==
    /\ pc[j] = "resolve"
    /\ \/ /\ script' = [script EXCEPT ![j] = "primary"]
          /\ Log(j, <<<<"Uploading ", "primary">>>>)
          /\ Ok(j, "put_script")
       \/ /\ script' = [script EXCEPT ![j] = "fallback"]
          /\ Log(j, << <<"Local script not found at ", "primary", ", falling back to ", "fallback">>,
                       <<"Uploading ", "fallback">> >>)
          /\ Ok(j, "put_script")
       \/ /\ Raise(j, [type |-> "SSHRunnerError", msg |-> MissingScript(kind[j])])
          /\ UNCHANGED <<script, logs>>
    /\ UNCHANGED <<JOBS, rec, issued, now, kind, client, exit_status, nread, remote>>

\* sftp.put(local_script_path, remote_script); sftp.chmod(remote_script, 0o755)
PutScript(j) ==
    /\ pc[j] = "put_script"
    /\ \/ /\ remote' = remote \cup {ScriptName(kind[j])}
          /\ Ok(j, "config")
       \/ /\ Raise(j, [type |-> "IOError", msg |-> <<"put">>])
          /\ UNCHANGED remote
       \/ /\ remote' = remote \cup {ScriptName(kind[j])}
          /\ Raise(j, [type |-> "IOError", msg |-> <<"chmod">>])
    /\ UNCHANGED <<JOBS, rec, logs, issued, now, kind, client, exit_status, script, nread>>

\* if os.path.exists(config_local_path): upload it, else log a warning.
UploadConfig(j) ==
    /\ pc[j] = "config"
    /\ \/ /\ Log(j, << <<"Uploading ", "config.json">>, <<"Config upload complete">> >>)
          /\ remote' = remote \cup {"config.json"}
          /\ Ok(j, "sftp_close")
       \/ /\ Log(j, << <<"Uploading ", "config.json">> >>)
          /\ Raise(j, [type |-> "IOError", msg |-> <<"put">>])
          /\ UNCHANGED remote
       \/ /\ Log(j, << <<"Warning: Config.json not found at ", "config.json", ", skipping upload.">> >>)
          /\ Skip(j, "sftp_close")
          /\ UNCHANGED remote
    /\ UNCHANGED <<JOBS, rec, issued, now, kind, client, exit_status, script, nread>>

\* The line logged before the remote command is started.
ExecLine(r) ==
    IF r = "pve" THEN <<"Executing: ", "python3 -u ", ScriptName(r)>>
    ELSE <<"Executing as root: ", "sudo -S python3 -u ", ScriptName(r)>>

\* sftp.close(); logs.append("Upload complete."); logs.append("Executing ...")
SftpClose(j) ==
    /\ pc[j] = "sftp_close"
    /\ \/ /\ Log(j, << <<"Upload complete.">>, ExecLine(kind[j]) >>)
          /\ Ok(j, "exec")
       \/ /\ Raise(j, [type |-> "SSHException", msg |-> <<"sftp.close">>])
          /\ UNCHANGED logs
    /\ UNCHANGED <<JOBS, rec, issued, now, kind, client, exit_status, script, nread, remote>>

\* stdin, stdout, stderr = client.exec_command(cmd)
\* (kssh_runner also writes the password to stdin and flushes)
Exec(j) ==
    /\ pc[j] = "exec"
    /\ \/ Ok(j, "stdout")
       \/ Raise(j, [type |-> "SSHException", msg |-> <<"exec_command">>])
    /\ UNCHANGED <<JOBS, rec, logs, issued, now, kind, client, exit_status, script, nread, remote>>

\* ---------------------------------------------------------------- streams
\* for line in iter(lambda: stdout.readline(2048), ""): logs.append(line.rstrip())
ReadStdout(j) ==
    /\ pc[j] = "stdout"
    /\ \/ /\ nread[j][1] < MaxOut
          /\ Log(j, << <<"out">> >>)
          /\ nread' = [nread EXCEPT ![j][1] = @ + 1]
          /\ Ok(j, "stdout")
       \/ /\ Ok(j, "stderr")
          /\ UNCHANGED <<logs, nread>>
       \/ /\ Raise(j, [type |-> "timeout", msg |-> <<"stdout.readline">>])
          /\ UNCHANGED <<logs, nread>>
    /\ UNCHANGED <<JOBS, rec, issued, now, kind, client, exit_status, script, remote>>

\* ssh_runner: err = stderr.read().decode(errors='replace')
PveReadStderr(j) ==
    /\ pc[j] = "stderr" /\ kind[j] = "pve"
    /\ \/ \E n \in 0..MaxErr :
            /\ nread' = [nread EXCEPT ![j][2] = n]
            /\ Ok(j, IF n > 0 THEN "stderr_marker" ELSE "recv")
       \/ /\ Raise(j, [type |-> "timeout", msg |-> <<"stderr.read">>])
          /\ UNCHANGED nread
    /\ UNCHANGED <<JOBS, rec, logs, issued, now, kind, client, exit_status, script, remote>>

\* ssh_runner: logs.append("--- STDERR ---")
PveStderrMarker(j) ==
    /\ pc[j] = "stderr_marker"
    /\ Log(j, << <<"--- STDERR ---">> >>)
    /\ Ok(j, "stderr_extend")
    /\ UNCHANGED <<JOBS, rec, issued, now, kind, client, exit_status, script, nread, remote>>

\* ssh_runner: logs.extend(err.splitlines())
PveStderrExtend(j) ==
    /\ pc[j] = "stderr_extend"
    /\ Log(j, [i \in 1..nread[j][2] |-> <<"err">>])
    /\ Ok(j, "recv")
    /\ UNCHANGED <<JOBS, rec, issued, now, kind, client, exit_status, script, nread, remote>>

\* (variant: goes back to reading stdout after each stderr line)
KvmReadStderrInterleaved(j) ==
    /\ pc[j] = "stderr" /\ kind[j] = "kvm"
    /\ \/ /\ nread[j][2] < MaxErr
          /\ Log(j, << <<"[STDERR] ", "err">> >>)
          /\ nread' = [nread EXCEPT ![j][2] = @ + 1]
          /\ Ok(j, "stdout")
       \/ /\ Ok(j, "recv")
          /\ UNCHANGED <<logs, nread>>
    /\ UNCHANGED <<JOBS, rec, issued, now, kind, client, exit_status, script, remote>>

\* kssh_runner: for line in iter(lambda: stderr.readline(2048), ""):
\*                  logs.append(f"[STDERR] {line.rstrip()}")
KvmReadStderr(j) ==
    /\ pc[j] = "stderr" /\ kind[j] = "kvm"
    /\ \/ /\ nread[j][2] < MaxErr
          /\ Log(j, << <<"[STDERR] ", "err">> >>)
          /\ nread' = [nread EXCEPT ![j][2] = @ + 1]
          /\ Ok(j, "stderr")
       \/ /\ Ok(j, "recv")
          /\ UNCHANGED <<logs, nread>>
       \/ /\ Raise(j, [type |-> "timeout", msg |-> <<"stderr.readline">>])
          /\ UNCHANGED <<logs, nread>>
    /\ UNCHANGED <<JOBS, rec, issued, now, kind, client, exit_status, script, remote>>

\* exit_status = stdout.channel.recv_exit_status()
RecvExit(j) ==
    /\ pc[j] = "recv"
    /\ \/ \E c \in ExitCodes :
            /\ exit_status' = [exit_status EXCEPT ![j] = Some(c)]
            /\ Ok(j, "set_exit_code")
       \/ /\ Raise(j, [type |-> "SSHException", msg |-> <<"recv_exit_status">>])
          /\ UNCHANGED exit_status
    /\ UNCHANGED <<JOBS, rec, logs, issued, now, kind, client, script, nread, remote>>

\* ---------------------------------------------------------------- outcome
\* The order of the statements that record the outcome:
\*   ssh_runner   exit_code, status, finished_at, log line, then cleanup
\*   kssh_runner  exit_code, log line, status, finished_at, then finally
AfterStep(r, step) ==
    CASE step = "set_exit_code"   -> IF r = "pve" THEN "set_status" ELSE "log_exit"
      [] step = "set_status"      -> "set_finished_at"
      [] step = "set_finished_at" -> IF r = "pve" THEN "log_exit" ELSE "finally"
      [] step = "log_exit"        -> IF r = "pve" THEN "cleanup_open" ELSE "set_status"

StatusForAlwaysFinished(code) == "finished"

\* 'finished' if exit_status == 0 else 'failed'
StatusFor(code) == IF code = 0 THEN "finished" ELSE "failed"

\* The line that reports the exit status.
ExitLine(r, code) ==
    IF r = "pve" THEN <<"Remote script exited with code ", Fmt(code)>>
    ELSE IF code = 0 THEN <<"[SUCCESS] KVM migration script exited with code ", Fmt(code)>>
    ELSE <<"[ERROR] KVM migration script exited with code ", Fmt(code)>>

\* JOBS[job_id][field] = value, inside the try block.
Store(j, field, value, next) ==
    IF Present(j)
    THEN /\ rec' = [rec EXCEPT ![j][field] = value]
         /\ Ok(j, next)
    ELSE /\ Raise(j, KeyError)
         /\ UNCHANGED rec

\* JOBS[job_id]['exit_code'] = exit_status
SetExitCode(j) ==
    /\ pc[j] = "set_exit_code"
    /\ Store(j, "exit_code", exit_status[j], AfterStep(kind[j], "set_exit_code"))
    /\ UNCHANGED <<JOBS, logs, issued, now, kind, client, exit_status, script, nread, remote>>

\* JOBS[job_id]['status'] = 'finished' if exit_status == 0 else 'failed'
SetStatus(j) ==
    /\ pc[j] = "set_status"
    /\ Store(j, "status", StatusFor(exit_status[j][1]), AfterStep(kind[j], "set_status"))
    /\ UNCHANGED <<JOBS, logs, issued, now, kind, client, exit_status, script, nread, remote>>

\* JOBS[job_id]['finished_at'] = time.time()
SetFinishedAt(j) ==
    /\ pc[j] = "set_finished_at"
    /\ \E t \in Clock :
         /\ now' = t
         /\ Store(j, "finished_at", Some(t), AfterStep(kind[j], "set_finished_at"))
    /\ UNCHANGED <<JOBS, logs, issued, kind, client, exit_status, script, nread, remote>>

\* logs.append(f"... exited with code {exit_status}")
LogExit(j) ==
    /\ pc[j] = "log_exit"
    /\ Log(j, << ExitLine(kind[j], exit_status[j][1]) >>)
    /\ Ok(j, AfterStep(kind[j], "log_exit"))
    /\ UNCHANGED <<JOBS, rec, issued, now, kind, client, exit_status, script, nread, remote>>

\* ---------------------------------------------------------------- cleanup (ssh_runner)
\* An exception raised and caught by the except clause of the cleanup block.
Caught(j, l) ==
    /\ pc' = [pc EXCEPT ![j] = l]
    /\ raised' = [raised EXCEPT ![j] = Append(@, <<pc[j], "IOError">>)]
    /\ UNCHANGED exc
    /\ Note(j, "fail")

\* sftp2 = client.open_sftp()            except: "Warning: cleanup failed"
PveCleanupOpen(j) ==
    /\ pc[j] = "cleanup_open"
    /\ \/ /\ Ok(j, "rm_script")
          /\ UNCHANGED logs
       \/ /\ Log(j, << <<"Warning: cleanup failed: ", "open_sftp">> >>)
          /\ Caught(j, "close")
    /\ UNCHANGED <<JOBS, rec, issued, now, kind, client, exit_status, script, nread, remote>>

\* try: sftp2.remove(path); logs.append("Deleted ...")
\* except: logs.append("Warning: could not delete ...")
PveRemove(j, at, file, what, next) ==
    /\ pc[j] = at
    /\ \/ /\ file \in remote
          /\ remote' = remote \ {file}
          /\ Log(j, << <<"Deleted remote ", what, ": ", file>> >>)
          /\ Ok(j, next)
       \/ /\ Log(j, << <<"Warning: could not delete ", file, ": ", "IOError">> >>)
          /\ Caught(j, next)
          /\ UNCHANGED remote
    /\ UNCHANGED <<JOBS, rec, issued, now, kind, client, exit_status, script, nread>>

PveRemoveScript(j) == PveRemove(j, "rm_script", ScriptName("pve"), "script", "rm_config")

PveRemoveConfig(j) == PveRemove(j, "rm_config", "config.json", "config", "cleanup_close")

\* sftp2.close()                         except: "Warning: cleanup failed"
PveCleanupClose(j) ==
    /\ pc[j] = "cleanup_close"
    /\ \/ /\ Ok(j, "close")
          /\ UNCHANGED logs
       \/ /\ Log(j, << <<"Warning: cleanup failed: ", "sftp2.close">> >>)
          /\ Caught(j, "close")
    /\ UNCHANGED <<JOBS, rec, issued, now, kind, client, exit_status, script, nread, remote>>

\* client.close(), last statement of the try block
PveClose(j) ==
    /\ pc[j] = "close"
    /\ \/ /\ client' = [client EXCEPT ![j] = "closed"]
          /\ Ok(j, "done")
       \/ /\ Raise(j, [type |-> "SSHException", msg |-> <<"client.close">>])
          /\ UNCHANGED client
    /\ UNCHANGED <<JOBS, rec, logs, issued, now, kind, exit_status, script, nread, remote>>

\* ---------------------------------------------------------------- except (ssh_runner)
\* JOBS[job_id][field] = value, inside an except clause: a KeyError leaves the
\* try statement through `fin`.
StoreInHandler(j, field, value, next, fin) ==
    IF Present(j)
    THEN /\ rec' = [rec EXCEPT ![j][field] = value]
         /\ Ok(j, next)
    ELSE /\ Escape(j, KeyError, fin)
         /\ UNCHANGED rec

\* except Exception as e: JOBS[job_id]['status'] = 'failed'
PveHandlerStatus(j) ==
    /\ pc[j] = "h_status"
    /\ StoreInHandler(j, "status", "failed", "h_finished_at", "crashed")
    /\ UNCHANGED <<JOBS, logs, issued, now, kind, client, exit_status, script, nread, remote>>

\* JOBS[job_id]['finished_at'] = time.time()
PveHandlerFinishedAt(j) ==
    /\ pc[j] = "h_finished_at"
    /\ \E t \in Clock :
         /\ now' = t
         /\ StoreInHandler(j, "finished_at", Some(t), "h_log", "crashed")
    /\ UNCHANGED <<JOBS, logs, issued, kind, client, exit_status, script, nread, remote>>

PveHandlerLogEnds(j) ==
    /\ pc[j] = "h_log"
    /\ Log(j, << <<"Exception: ">> \o exc[j].msg >>)
    /\ Ok(j, "done")
    /\ UNCHANGED <<JOBS, rec, issued, now, kind, client, exit_status, script, nread, remote>>

\* logs.append(f"Exception: {e}"); if client: ...
PveHandlerLog(j) ==
    /\ pc[j] = "h_log"
    /\ Log(j, << <<"Exception: ">> \o exc[j].msg >>)
    /\ Ok(j, IF client[j] # "None" THEN "h_cleanup" ELSE "done")
    /\ UNCHANGED <<JOBS, rec, issued, now, kind, client, exit_status, script, nread, remote>>

\* try: open_sftp, remove script, remove config, close   except Exception: pass
PveHandlerCleanup(j) ==
    /\ pc[j] = "h_cleanup"
    /\ \E gone \in SUBSET ({ScriptName("pve"), "config.json"} \cap remote) :
         /\ (client[j] # "connected") => gone = {}
         /\ remote' = remote \ gone
         /\ IF gone = {ScriptName("pve"), "config.json"}
            THEN Ok(j, "h_close")
            ELSE Caught(j, "h_close")
    /\ UNCHANGED <<JOBS, rec, logs, issued, now, kind, client, exit_status, script, nread>>

\* client.close(), last statement of the except clause
PveHandlerClose(j) ==
    /\ pc[j] = "h_close"
    /\ \/ /\ client' = [client EXCEPT ![j] = "closed"]
          /\ Ok(j, "done")
       \/ /\ Escape(j, [type |-> "SSHException", msg |-> <<"client.close">>], "crashed")
          /\ UNCHANGED client
    /\ UNCHANGED <<JOBS, rec, logs, issued, now, kind, exit_status, script, nread, remote>>

\* ---------------------------------------------------------------- except / finally (kssh_runner)
KvmErrorLineNoText(clause, e) == <<"[ERROR] ">>

\* The line each except clause of kssh_runner logs.
KvmErrorLine(clause, e) ==
    IF clause = "k_log_auth" THEN <<"[ERROR] SSH authentication failed: ">> \o e.msg
    ELSE <<"[ERROR] ">> \o e.msg

\* except ...: logs.append(f"[ERROR] ...")
KvmHandlerLog(j) ==
    /\ pc[j] \in {"k_log_runner", "k_log_auth", "k_log_other"}
    /\ Log(j, << KvmErrorLine(pc[j], exc[j]) >>)
    /\ Ok(j, "k_status")
    /\ UNCHANGED <<JOBS, rec, issued, now, kind, client, exit_status, script, nread, remote>>

\* JOBS[job_id]['status'] = 'failed'
KvmHandlerStatus(j) ==
    /\ pc[j] = "k_status"
    /\ StoreInHandler(j, "status", "failed", "k_finished_at", "finally_exc")
    /\ UNCHANGED <<JOBS, logs, issued, now, kind, client, exit_status, script, nread, remote>>

\* JOBS[job_id]['finished_at'] = time.time()
KvmHandlerFinishedAt(j) ==
    /\ pc[j] = "k_finished_at"
    /\ \E t \in Clock :
         /\ now' = t
         /\ StoreInHandler(j, "finished_at", Some(t), "finally", "finally_exc")
    /\ UNCHANGED <<JOBS, logs, issued, kind, client, exit_status, script, nread, remote>>

\* finally: if client: client.close()
KvmFinally(j) ==
    /\ pc[j] \in {"finally", "finally_exc"}
    /\ LET end == IF pc[j] = "finally" THEN "done" ELSE "crashed" IN
       \/ /\ client[j] # "None"
          /\ client' = [client EXCEPT ![j] = "closed"]
          /\ Ok(j, end)
       \/ /\ client[j] # "None"
          /\ Escape(j, [type |-> "SSHException", msg |-> <<"client.close">>], "crashed")
          /\ UNCHANGED client
       \/ /\ client[j] = "None"
          /\ Skip(j, end)
          /\ UNCHANGED client
    /\ UNCHANGED <<JOBS, rec, logs, issued, now, kind, exit_status, script, nread, remote>>

\* ---------------------------------------------------------------- registry
\* ssh_runner.get_job_status returns the dict itself; kssh_runner.get_job_status
\* returns JOBS[job_id].copy(); both fail with SSHRunnerError on an unknown id.
NotFound == [error |-> "SSHRunnerError"]

get_job_status(r, j) ==
    IF j \in JOBS[r]
    THEN [status |-> rec[j].status, logs |-> logs[j], started_at |-> rec[j].started_at,
          finished_at |-> rec[j].finished_at, exit_code |-> rec[j].exit_code]
    ELSE NotFound

\* (variant: the call leaves the record in the registry)
clear_jobKeepsRecord(j) ==
    /\ j \in call.returned
    /\ call' = [call EXCEPT !.cleared = @ \cup {j}]
    /\ UNCHANGED <<JOBS, rec, logs, issued, now, kind, pc, client, exc, exit_status, script,
                   nread, remote, raised, attempts, poll, proc, paramiko, clr, disk, req, mod, saved>>

\* kssh_runner.clear_job: if job_id in JOBS: del JOBS[job_id]
\* A caller passes an id it was given: one a start call returned.
clear_job(j) ==
    /\ j \in call.returned
    /\ JOBS' = [JOBS EXCEPT !["kvm"] = @ \ {j}]
    /\ call' = [call EXCEPT !.cleared = @ \cup {j}]
    /\ UNCHANGED <<rec, logs, issued, now, kind, pc, client, exc, exit_status, script,
                   nread, remote, raised, attempts, poll, proc, paramiko, clr, disk, req, mod, saved>>

\* The same function called by several threads at once: the membership test and
\* the del statement are separate steps, another thread may run between them.
\* Id 0 stands for a string that was never a job id.
ClearTest(t, id) ==
    /\ clr[t].pc = "idle"
    /\ id \in 0..issued
    /\ clr' = [clr EXCEPT ![t] = [pc |-> IF id \in JOBS["kvm"] THEN "del" ELSE "done",
                                  id |-> id, error |-> ""]]
    /\ UNCHANGED <<JOBS, rec, logs, issued, now, kind, pc, client, exc, exit_status, script,
                   nread, remote, raised, attempts, poll, proc, paramiko, call, disk, req, mod, saved>>

ClearDel(t) ==
    /\ clr[t].pc = "del"
    /\ IF clr[t].id \in JOBS["kvm"]
       THEN /\ JOBS' = [JOBS EXCEPT !["kvm"] = @ \ {clr[t].id}]
            /\ clr' = [clr EXCEPT ![t].pc = "done"]
       ELSE /\ clr' = [clr EXCEPT ![t].pc = "raised", ![t].error = KeyError.type]
            /\ UNCHANGED JOBS
    /\ UNCHANGED <<rec, logs, issued, now, kind, pc, client, exc, exit_status, script,
                   nread, remote, raised, attempts, poll, proc, paramiko, call, disk, req, mod, saved>>

\* ---------------------------------------------------------------- specification
Task(j) ==
    \/ SetRunning(j) \/ GetLogs(j) \/ Connect(j) \/ OpenSftp(j) \/ ResolveScript(j) \/ PutScript(j)
    \/ UploadConfig(j) \/ SftpClose(j) \/ Exec(j) \/ ReadStdout(j)
    \/ PveReadStderr(j) \/ PveStderrMarker(j) \/ PveStderrExtend(j) \/ KvmReadStderr(j)
    \/ RecvExit(j) \/ SetExitCode(j) \/ SetStatus(j) \/ SetFinishedAt(j) \/ LogExit(j)
    \/ PveCleanupOpen(j) \/ PveRemoveScript(j) \/ PveRemoveConfig(j) \/ PveCleanupClose(j)
    \/ PveClose(j)
    \/ PveHandlerStatus(j) \/ PveHandlerFinishedAt(j) \/ PveHandlerLog(j)
    \/ PveHandlerCleanup(j) \/ PveHandlerClose(j)
    \/ KvmHandlerLog(j) \/ KvmHandlerStatus(j) \/ KvmHandlerFinishedAt(j) \/ KvmFinally(j)

Next ==
    \/ start_remote_migration
    \/ start_kvm_migration
    \/ \E r \in Runners : StartRaises(r)
    \/ \E j \in Ids : StartReturns(j)
    \/ \E j \in Ids : Task(j)
    \/ \E j \in Ids : clear_job(j)

Spec == Init /\ [][Next]_vars

\* ---------------------------------------------------------------- status route
\* routes.migration_status(job_id), one request at a time, its steps interleaved
\* with the job tasks and with clear_job. Id 0 stands for an id no start call
\* ever returned.
taskvars == <<JOBS, rec, logs, issued, now, kind, pc, client, exc, exit_status, script,
              nread, remote, raised, attempts, proc, paramiko, call, clr, disk, req, mod, saved>>

\* ssh_runner.get_job_status: job = JOBS.get(job_id)
PveLookup(id) == IF id \in JOBS["pve"] THEN Some(id) ELSE None

KvmHasAlways(id) == TRUE

\* kssh_runner.get_job_status: job_id not in JOBS
KvmHas(id) == id \in JOBS["kvm"]

\* The object a caller holds after get_job_status returned: ssh_runner returns
\* the registry's dict; kssh_runner returns dict.copy(), a new dict whose 'logs'
\* entry is the registry's list.
Returned(r, id) ==
    [of |-> id,
     live |-> r = "pve",
     fields |-> [status |-> rec[id].status, started_at |-> rec[id].started_at,
                 finished_at |-> rec[id].finished_at, exit_code |-> rec[id].exit_code]]

\* What reading the held object yields now.
ValueOf(obj) ==
    LET f == IF obj.live THEN rec[obj.of] ELSE obj.fields
    IN  [status |-> f.status, logs |-> logs[obj.of], started_at |-> f.started_at,
         finished_at |-> f.finished_at, exit_code |-> f.exit_code]

\* The request arrives; `known` records whether the id names a record of either
\* registry at that moment (a deleted or never issued id names none, for ever).
MigrationStatus(id) ==
    /\ poll.pc \in {"idle", "done"}
    /\ id \in {0} \cup call.returned
    /\ poll' = [Idle EXCEPT !.pc = "pve_get", !.route = "migration_status", !.id = id,
                            !.known = (id \in JOBS["pve"] \cup JOBS["kvm"])]
    /\ UNCHANGED taskvars

StatusPveSetsDefault ==
    /\ poll.pc = "pve_get"
    /\ poll' = [poll EXCEPT !.pc = "done", !.code = 200]
    /\ JOBS' = [JOBS EXCEPT !["pve"] = @ \cup {poll.id}]
    /\ UNCHANGED <<rec, logs, issued, now, kind, pc, client, exc, exit_status, script,
                   nread, remote, raised, attempts, proc, paramiko, call, clr, disk, req, mod, saved>>

\* try: job = get_job_status(job_id); return jsonify(success=True, job=job)
\* except SSHRunnerError: fall through to the KVM registry.
StatusPve ==
    /\ poll.pc = "pve_get"
    /\ IF PveLookup(poll.id) # None
       THEN poll' = [poll EXCEPT !.pc = "done", !.code = 200,
                                 !.job = Some(Returned("pve", poll.id)),
                                 !.seen = Some(get_job_status("pve", poll.id))]
       ELSE poll' = [poll EXCEPT !.pc = "kvm_check"]
    /\ UNCHANGED taskvars

\* kssh_runner.get_job_status, the membership test; KSSHRunnerError -> 404.
StatusKvmCheck ==
    /\ poll.pc = "kvm_check"
    /\ IF KvmHas(poll.id)
       THEN poll' = [poll EXCEPT !.pc = "kvm_copy"]
       ELSE poll' = [poll EXCEPT !.pc = "done", !.code = 404, !.error = NotFound.error]
    /\ UNCHANGED taskvars

\* kssh_runner.get_job_status, return JOBS[job_id].copy(); a KeyError reaches
\* the route's `except Exception` -> 500.
StatusKvmCopy ==
    /\ poll.pc = "kvm_copy"
    /\ IF poll.id \in JOBS["kvm"]
       THEN poll' = [poll EXCEPT !.pc = "done", !.code = 200,
                                 !.job = Some(Returned("kvm", poll.id)),
                                 !.seen = Some(get_job_status("kvm", poll.id))]
       ELSE poll' = [poll EXCEPT !.pc = "done", !.code = 500, !.error = KeyError.type]
    /\ UNCHANGED taskvars

\* '\n'.join(logs): the text of the lines, a newline between two lines.
RECURSIVE Join(_)
Join(lines) ==
    IF lines = <<>> THEN <<>>
    ELSE IF Len(lines) = 1 THEN lines[1]
    ELSE lines[1] \o <<"\n">> \o Join(Tail(lines))

\* routes.download_log(job_id): get_job_status of ssh_runner only; on
\* SSHRunnerError flash 'Job not found' and redirect (302), else the joined
\* logs as a text attachment.
download_log(id) ==
    /\ poll.pc \in {"idle", "done"}
    /\ id \in {0} \cup call.returned
    /\ IF PveLookup(id) # None
       THEN poll' = [Idle EXCEPT !.pc = "done", !.route = "download_log", !.id = id,
                                 !.known = TRUE, !.code = 200,
                                 !.seen = Some(get_job_status("pve", id)),
                                 !.body = Join(logs[id])]
       ELSE poll' = [Idle EXCEPT !.pc = "done", !.route = "download_log", !.id = id,
                                 !.known = (id \in JOBS["kvm"]),
                                 !.code = 302, !.error = NotFound.error]
    /\ UNCHANGED taskvars

NextPoll ==
    \/ Next
    \/ \E id \in 0..MaxJobs : download_log(id)
    \/ \E id \in 0..MaxJobs : MigrationStatus(id)
    \/ StatusPve
    \/ StatusKvmCheck
    \/ StatusKvmCopy

SpecPoll == Init /\ [][NextPoll]_vars

\* ---------------------------------------------------------------- remote command
\* The remote command of job j, started by exec_command, writes lines to its
\* stdout and stderr and ends; both streams of the channel reach end-of-file
\* when it ends. The reads of the task are tied to what was written: readline
\* returns a line that was written, returns "" at end-of-file only, and
\* otherwise blocks; stderr.read() returns at end-of-file; recv_exit_status
\* returns after the command ended. The channel has one receive window for
\* both streams: it is given back to the sender as the task reads, and a
\* command whose write finds the window used up waits in that write.
Running(j) == <<"exec", "ok">> \in Range(attempts[j]) /\ ~proc[j].eof

\* The command starts: what it is going to write before it ends.
ProcStarts(j) ==
    /\ Running(j)
    /\ proc[j].plan = None
    /\ \E o \in 0..MaxOut : \E e \in 0..MaxErr :
          proc' = [proc EXCEPT ![j].plan = Some([out |-> o, err |-> e])]
    /\ UNCHANGED <<JOBS, rec, logs, issued, now, kind, pc, client, exc, exit_status, script,
                   nread, remote, raised, attempts, poll, paramiko, call, clr, disk, req, mod, saved>>

\* Lines sent and not yet read by the task.
InFlight(j) == (proc[j].out - nread[j][1]) + (proc[j].err - nread[j][2])

ProcWrites(j, stream) ==
    /\ Running(j)
    /\ proc[j].plan # None
    /\ InFlight(j) < MaxWindow
    /\ \/ /\ stream = "out" /\ proc[j].out < proc[j].plan[1].out
          /\ proc' = [proc EXCEPT ![j].out = @ + 1]
       \/ /\ stream = "err" /\ proc[j].err < proc[j].plan[1].err
          /\ proc' = [proc EXCEPT ![j].err = @ + 1]
    /\ UNCHANGED <<JOBS, rec, logs, issued, now, kind, pc, client, exc, exit_status, script,
                   nread, remote, raised, attempts, poll, paramiko, call, clr, disk, req, mod, saved>>

ProcExits(j) ==
    /\ Running(j)
    /\ proc[j].plan = Some([out |-> proc[j].out, err |-> proc[j].err])
    /\ proc' = [proc EXCEPT ![j].eof = TRUE]
    /\ UNCHANGED <<JOBS, rec, logs, issued, now, kind, pc, client, exc, exit_status, script,
                   nread, remote, raised, attempts, poll, paramiko, call, clr, disk, req, mod, saved>>

StreamEnv(j) ==
    /\ pc[j] = "stdout" =>
          /\ nread'[j][1] > nread[j][1] => nread[j][1] < proc[j].out
          /\ pc'[j] = "stderr" => (proc[j].eof /\ nread[j][1] = proc[j].out)
    /\ (pc[j] = "stderr" /\ kind[j] = "pve" /\ pc'[j] \in {"stderr_marker", "recv"}) =>
          (proc[j].eof /\ nread'[j][2] = proc[j].err)
    /\ (pc[j] = "stderr" /\ kind[j] = "kvm") =>
          /\ nread'[j][2] > nread[j][2] => nread[j][2] < proc[j].err
          /\ pc'[j] = "recv" => (proc[j].eof /\ nread[j][2] = proc[j].err)
    /\ (pc[j] = "recv" /\ pc'[j] = "set_exit_code") => proc[j].eof

StreamTask(j) == Task(j) /\ StreamEnv(j)

NextStream ==
    \/ start_remote_migration
    \/ start_kvm_migration
    \/ \E j \in Ids : StreamTask(j)
    \/ \E j \in Ids : ProcStarts(j)
    \/ \E j \in Ids : \E stream \in {"out", "err"} : ProcWrites(j, stream)
    \/ \E j \in Ids : ProcExits(j)

SpecStream == Init /\ [][NextStream]_vars

\* Fair scheduling: the thread of a job keeps being scheduled, the remote
\* command keeps running while it can, and every call of the task returns or
\* raises. The connection is not assumed to drop: a read that waits for the
\* command is not bound to fail (exec_command is called with no timeout).
Healthy(j) == pc[j] \in {"stdout", "stderr", "recv"} => raised'[j] = raised[j]

ProcStep(j) == ProcStarts(j) \/ ProcWrites(j, "out") \/ ProcWrites(j, "err") \/ ProcExits(j)

Fairness == \A j \in Ids : WF_vars(StreamTask(j) /\ Healthy(j)) /\ WF_vars(ProcStep(j))

SpecLive == Init /\ [][NextStream]_vars /\ Fairness

\* ---------------------------------------------------------------- two jobs
\* Two jobs started one after the other, their tasks running concurrently. The
\* environment is kept lean: the clock ticks once at each start, and the
\* transport fails only when connecting, in the handler's cleanup, or closing.
PairEnv ==
    /\ now' = issued'
    /\ \A j \in Ids : \A i \in DOMAIN raised'[j] :
          raised'[j][i][1] \in {"connect", "close", "h_cleanup", "h_close", "finally"}

PairStart(r) == Issue(r, MaxPair) /\ PairEnv

PairTask(j) == Task(j) /\ PairEnv

NextPair ==
    \/ PairStart("pve")
    \/ PairStart("kvm")
    \/ \E j \in Ids : PairTask(j)

SpecPair == Init /\ [][NextPair]_vars

\* ---------------------------------------------------------------- concurrent clear_job
\* Two jobs and two threads calling clear_job. The environment is kept lean:
\* the local script is in place, the remote command prints nothing, and the
\* transport never fails, so that the only exceptions are the KeyErrors that a
\* removed record causes.
ClearEnv ==
    /\ now' = issued'
    /\ \A j \in Ids :
          /\ \A i \in DOMAIN raised'[j] : raised'[j][i][2] = KeyError.type
          /\ script'[j] # "fallback"
          /\ nread'[j] = <<0, 0>>

ClearStart(r) == Issue(r, MaxPair) /\ ClearEnv

ClearTask(j) == Task(j) /\ ClearEnv

NextClear ==
    \/ ClearStart("pve")
    \/ ClearStart("kvm")
    \/ \E j \in Ids : ClearTask(j)
    \/ \E t \in Callers : \E id \in 0..MaxPair : ClearTest(t, id)
    \/ \E t \in Callers : ClearDel(t)

SpecClear == Init /\ [][NextClear]_vars

\* ---------------------------------------------------------------- configuration calls
\* The requests that read and rewrite config.json, each a sequence of steps
\* (one per system call) that other requests may interleave with.
notconfig == <<JOBS, rec, logs, issued, now, kind, pc, client, exc, exit_status, script,
               nread, remote, raised, attempts, poll, proc, paramiko, call, clr>>

\* json.dump(config, f, indent=2): an opening brace, one chunk per key, one per
\* element of selected_vms, a closing brace.
Serialise(doc) ==
    <<"{", <<"source", doc["source"]>>, <<"proxmox", doc["proxmox"]>>, <<"kvm", doc["kvm"]>>>>
    \o [i \in 1..Len(doc["selected_vms"]) |-> <<"vm", doc["selected_vms"][i]>>]
    \o <<"}">>

\* json.load(f): the document, or Broken where json.load raises (empty file,
\* missing close, text after the close).
Broken == [error |-> "JSONDecodeError"]

Parse(text) ==
    IF /\ Len(text) >= 5
       /\ text[1] = "{"
       /\ text[Len(text)] = "}"
       /\ \A i \in 2..(Len(text) - 1) : text[i] # "}" /\ text[i] # "{"
       /\ text[2][1] = "source" /\ text[3][1] = "proxmox" /\ text[4][1] = "kvm"
       /\ \A i \in 5..(Len(text) - 1) : text[i][1] = "vm"
    THEN [s \in Sections |->
            CASE s = "source" -> text[2][2]
              [] s = "proxmox" -> text[3][2]
              [] s = "kvm" -> text[4][2]
              [] OTHER -> [i \in 1..(Len(text) - 5) |-> text[i + 4][2]]]
    ELSE Broken

\* f.write at offset 0 of a file that may already hold text: the chunks beyond
\* the new text stay.
Overwrite(old, new) ==
    [i \in 1..Max(Len(old), Len(new)) |-> IF i <= Len(new) THEN new[i] ELSE old[i]]

\* The dict a request works on: the local `config` in esxi_to_proxmox_migration,
\* the module global `_current_config` in kvm_migration.
Config(t) ==
    IF req[t].kind.module = "kvm_migration"
    THEN mod["kvm_migration"]._current_config
    ELSE req[t].config

\* What json.dump sees: the nested dicts of a DEFAULT_CONFIG.copy() are those
\* of DEFAULT_CONFIG itself.
Content(m, cfg) ==
    IF cfg.alias
    THEN [s \in Sections |-> IF s \in Nested THEN mod[m].DEFAULT_CONFIG[s] ELSE cfg.doc[s]]
    ELSE cfg.doc

\* A route calls an updater or a reader. The value written is the number of the
\* call, so that every call writes a value of its own; update_selected_vms is
\* passed a list of one or two serial numbers.
ConfigCall(t, k) ==
    /\ req[t].pc = "rest"
    /\ saved.n < MaxCalls
    /\ \E len \in 1..2 :
          /\ k.section # "selected_vms" => len = 1
          /\ req' = [req EXCEPT ![t] =
                       [Resting EXCEPT !.pc = "exists", !.kind = k, !.no = saved.n + 1,
                                       !.arg = IF k.section = "selected_vms"
                                               THEN [i \in 1..len |-> saved.n + 1]
                                               ELSE saved.n + 1]]
    /\ saved' = [saved EXCEPT !.n = @ + 1]
    /\ UNCHANGED <<disk, mod, notconfig>>

\* _load_config's result reaches the caller: `config = _load_config()` or
\* `_current_config = _load_config()`; a reader is done.
Loaded(t, cfg, text) ==
    LET k == req[t].kind IN
    /\ req' = [req EXCEPT ![t].pc = IF k \in Updaters THEN "modify" ELSE "rest",
                          ![t].seen = text,
                          ![t].config = IF k.module = "kvm_migration" THEN @ ELSE cfg,
                          ![t].result = IF k \in Updaters THEN "" ELSE "read"]
    /\ mod' = IF k.module = "kvm_migration" /\ k \in Updaters
              THEN [mod EXCEPT ![k.module]._current_config = cfg]
              ELSE mod

DefaultCopy == [alias |-> TRUE, doc |-> DEFAULT_CONFIG]

\* os.path.exists(CONFIG_PATH); ssh_runner: os.path.exists(config_local_path)
LoadExists(t) ==
    /\ req[t].pc = "exists"
    /\ IF disk.config # 0
       THEN /\ req' = [req EXCEPT ![t].pc = "open"]
            /\ UNCHANGED mod
       ELSE Loaded(t, DefaultCopy, None)
    /\ UNCHANGED <<disk, saved, notconfig>>

\* open(CONFIG_PATH, 'r'); sftp.put opens the local file
LoadOpen(t) ==
    /\ req[t].pc = "open"
    /\ req' = [req EXCEPT ![t].pc = "read", ![t].fd = disk.config]
    /\ UNCHANGED <<disk, mod, saved, notconfig>>

\* json.load(f), any exception answered with DEFAULT_CONFIG.copy(); sftp.put
\* reads the bytes as they are
LoadRead(t) ==
    /\ req[t].pc = "read"
    /\ LET text == disk.data[req[t].fd] IN
       Loaded(t, IF Parse(text) = Broken THEN DefaultCopy ELSE [alias |-> FALSE, doc |-> Parse(text)],
              Some(text))
    /\ UNCHANGED <<disk, saved, notconfig>>

\* config[section][...] = host, user, password; config['selected_vms'] = list
Modify(t) ==
    /\ req[t].pc = "modify"
    /\ LET k == req[t].kind
           cfg == Config(t)
           new == [cfg EXCEPT !.doc[k.section] = req[t].arg]
       IN /\ req' = [req EXCEPT ![t].pc = "save_open",
                                ![t].config = IF k.module = "kvm_migration" THEN @ ELSE new]
          /\ mod' = [mod EXCEPT
                       ![k.module]._current_config =
                           IF k.module = "kvm_migration" THEN new ELSE @,
                       ![k.module].DEFAULT_CONFIG[k.section] =
                           IF cfg.alias /\ k.section \in Nested THEN req[t].arg ELSE @]
    /\ UNCHANGED <<disk, saved, notconfig>>

\* _save_config: open(tmp_path, 'w') truncates the file that is there or creates
\* one (a new inode, numbered after the call)
SaveOpen(t) ==
    /\ req[t].pc = "save_open"
    /\ IF disk.tmp # 0
       THEN /\ disk' = [disk EXCEPT !.data[disk.tmp] = <<>>]
            /\ req' = [req EXCEPT ![t].pc = "save_write", ![t].fd = disk.tmp]
       ELSE /\ disk' = [disk EXCEPT !.tmp = req[t].no, !.data[req[t].no] = <<>>]
            /\ req' = [req EXCEPT ![t].pc = "save_write", ![t].fd = req[t].no]
    /\ UNCHANGED <<mod, saved, notconfig>>

\* json.dump(config, f); f.flush(); os.fsync(); close
SaveWrite(t) ==
    /\ req[t].pc = "save_write"
    /\ LET text == Serialise(Content(req[t].kind.module, Config(t))) IN
       /\ disk' = [disk EXCEPT !.data[req[t].fd] = Overwrite(@, text)]
       /\ saved' = [saved EXCEPT !.texts = @ \cup {text}]
    /\ req' = [req EXCEPT ![t].pc = "replace"]
    /\ UNCHANGED <<mod, notconfig>>

\* os.replace(tmp_path, CONFIG_PATH); return True. FileNotFoundError when the
\* temporary file is gone: return False.
SaveReplace(t) ==
    /\ req[t].pc = "replace"
    /\ IF disk.tmp # 0
       THEN /\ disk' = [disk EXCEPT !.config = disk.tmp, !.tmp = 0]
            /\ req' = [req EXCEPT ![t].pc = "rest", ![t].result = "True"]
            /\ saved' = [saved EXCEPT !.last[req[t].kind.section] = req[t].arg]
       ELSE /\ req' = [req EXCEPT ![t].pc = "rest", ![t].result = "False"]
            /\ UNCHANGED <<disk, saved>>
    /\ UNCHANGED <<mod, notconfig>>

ConfigStep(t) ==
    \/ LoadExists(t) \/ LoadOpen(t) \/ LoadRead(t) \/ Modify(t)
    \/ SaveOpen(t) \/ SaveWrite(t) \/ SaveReplace(t)

NextConfig ==
    \/ \E t \in Callers : \E k \in Updaters \cup Readers : ConfigCall(t, k)
    \/ \E t \in Callers : ConfigStep(t)

SpecConfig == Init /\ [][NextConfig]_vars

\* ---------------------------------------------------------------- properties
Terminal(st) == st \in {"finished", "failed"}

\* The task of job j has ended: _run returned, or an exception left _run.
Ended(j) == pc[j] \in {"done", "crashed"}

IsPrefix(a, b) == Len(a) <= Len(b) /\ SubSeq(b, 1, Len(a)) = a

\* The step of job j's task is a successful JOBS[job_id]['finished_at'] = time.time().
WritesFinishedAt(j) ==
    /\ pc[j] \in {"set_finished_at", "h_finished_at", "k_finished_at"}
    /\ pc'[j] # pc[j]
    /\ Present(j)

\* C1: once a job's status is 'finished' or 'failed', no later step of its task
\* changes the status, on every path, failures of cleanup and close included.
C1_TerminalStatusNeverChanges ==
    [][\A j \in Ids : Terminal(rec[j].status) => rec'[j].status = rec[j].status]_vars

\* C2: in every state a poller can read through get_job_status, finished_at is
\* set iff the status is 'finished' or 'failed'; finished_at is written once.
C2_FinishedAtIffTerminal ==
    /\ [](\A r \in Runners : \A j \in JOBS[r] :
            (get_job_status(r, j).finished_at # None) <=> Terminal(get_job_status(r, j).status))
    /\ [][\A j \in Ids : WritesFinishedAt(j) => rec[j].finished_at = None]_vars

\* C3: no line is appended to a job's logs after its finished_at is set.
C3_LogsFrozenAfterFinishedAt ==
    [][\A j \in Ids : rec[j].finished_at # None => logs'[j] = logs[j]]_vars

\* C4: a job's logs are append-only: every step leaves the old logs a prefix of
\* the new logs.
C4_LogsAppendOnly ==
    [][\A j \in Ids : IsPrefix(logs[j], logs'[j])]_vars

\* A Proxmox job that logged stderr lines with logs.extend and then ended.
C4_Witness ==
    \E j \in Ids : Ended(j) /\ <<"--- STDERR ---">> \in Range(logs[j]) /\ Len(logs[j]) >= 8

\* C5: the status moves only along queued -> running -> finished | failed.
C5_StatusTransitions ==
    [][\A j \in Ids : rec'[j].status # rec[j].status =>
            <<rec[j].status, rec'[j].status>> \in
                {<<"", "queued">>, <<"queued", "running">>,
                 <<"running", "finished">>, <<"running", "failed">>}]_vars

\* C6: a job whose remote command exited with code 0 ends (record still in the
\* registry) with status 'finished', exit_code 0 and finished_at >= started_at.
C6_ExitZeroFinishes ==
    \A j \in Ids :
        (Ended(j) /\ Present(j) /\ exit_status[j] = Some(0)) =>
            /\ rec[j].status = "finished"
            /\ rec[j].exit_code = Some(0)
            /\ rec[j].finished_at # None
            /\ rec[j].finished_at[1] >= rec[j].started_at

\* The log line names exit code n.
NamesExit(line, n) ==
    /\ Len(line) = 2
    /\ line[1] \in {"Remote script exited with code ",
                     "[ERROR] KVM migration script exited with code "}
    /\ line[2] = Fmt(n)

\* C7: a job whose remote command exited with a non-zero code n ends (record
\* still in the registry) with status 'failed', exit_code n and a log line that
\* names n.
C7_NonZeroExitFails ==
    \A j \in Ids :
        (Ended(j) /\ Present(j) /\ exit_status[j] # None /\ exit_status[j][1] # 0) =>
            /\ rec[j].status = "failed"
            /\ rec[j].exit_code = exit_status[j]
            /\ \E i \in DOMAIN logs[j] : NamesExit(logs[j][i], exit_status[j][1])

C7_Witness ==
    \E j \in Ids : Ended(j) /\ Present(j) /\ exit_status[j] = Some(17)
                      /\ rec[j].exit_code = Some(17)

\* The log line reports an exception together with its text.
ErrorLine(line) ==
    /\ line[1] \in {"Exception: ", "[ERROR] ", "[ERROR] SSH authentication failed: "}
    /\ Len(line) > 1

\* The log line reports an exception whose text contains `what`.
NamesFailure(line, what) == ErrorLine(line) /\ what \in Range(line)

\* The first exception of job j's task was raised at a step in `steps`.
FailedAt(j, steps) == raised[j] # <<>> /\ raised[j][1][1] \in steps

\* C8: a job whose connection attempt failed ends (record still in the
\* registry) 'failed', with exit_code unset and a log line naming the failure.
C8_ConnectFailureFails ==
    \A j \in Ids :
        (Ended(j) /\ Present(j) /\ FailedAt(j, {"connect"})) =>
            /\ rec[j].status = "failed"
            /\ rec[j].exit_code = None
            /\ \E i \in DOMAIN logs[j] : NamesFailure(logs[j][i], raised[j][1][2])

C8_Witness ==
    \E j \in Ids : /\ Ended(j) /\ Present(j) /\ kind[j] = "kvm"
                    /\ raised[j] = << <<"connect", "AuthenticationException">> >>

\* C9: exit_code is set only to an exit status that recv_exit_status returned;
\* a job that failed while connecting, resolving or uploading never has one.
C9_ExitCodeOnlyIfReceived ==
    \A j \in Ids :
        /\ rec[j].exit_code # None =>
                (exit_status[j] # None /\ rec[j].exit_code = exit_status[j])
        /\ FailedAt(j, {"connect", "open_sftp", "resolve", "put_script", "config",
                        "sftp_close"}) => rec[j].exit_code = None

C9_Witness ==
    \E j \in Ids : Ended(j) /\ FailedAt(j, {"put_script"}) /\ rec[j].status = "failed"

\* C10: a failure at any step of the pipeline is caught inside the task: the
\* job ends 'failed' with a log line describing the error and the task ends
\* without an unhandled error.
C10_FailuresCaughtInTask ==
    \A j \in Ids :
        (Ended(j) /\ FailedAt(j, {"connect", "open_sftp", "resolve", "put_script", "config",
                                  "sftp_close", "exec", "stdout", "stderr", "recv"})) =>
            /\ pc[j] = "done"
            /\ rec[j].status = "failed"
            /\ \E i \in DOMAIN logs[j] : ErrorLine(logs[j][i])

\* C11: with two jobs running concurrently, a step of one job's task changes
\* neither the record (status, exit_code, timestamps) nor the logs nor the
\* registry entry of the other job; and a record changes only by a step of its
\* own task or by the start call that creates it.
C11_TasksWriteOwnRecord ==
    [][\A j \in Ids :
         /\ Task(j) => \A k \in Ids \ {j} :
                          /\ rec'[k] = rec[k]
                          /\ logs'[k] = logs[k]
                          /\ \A r \in Runners : (k \in JOBS'[r]) = (k \in JOBS[r])
         /\ (rec'[j] # rec[j] \/ logs'[j] # logs[j]) => (Task(j) \/ issued' = j)]_vars

\* Both tasks are in flight at once, one after its failure handler set 'failed',
\* the other after the remote script ended with code 0, each record holding its
\* own outcome.
C11_Witness ==
    /\ issued = 2
    /\ ~Ended(1) /\ ~Ended(2)
    /\ rec[1].status = "failed" /\ rec[1].exit_code = None
    /\ rec[2].status = "finished" /\ rec[2].exit_code = Some(0)
    /\ rec[1].started_at < rec[2].started_at
    /\ logs[1] # logs[2]

\* C12: a status request for an id that was never issued, or whose record was
\* deleted with clear_job before the request, ends with the not-found error
\* (404) and carries no record; and get_job_status of either runner yields the
\* not-found error for every id its registry does not hold.
C12_UnknownIdNotFound ==
    /\ (poll.pc = "done" /\ poll.route = "migration_status" /\ ~poll.known) =>
            /\ poll.code = 404
            /\ poll.error = "SSHRunnerError"
            /\ poll.job = None /\ poll.seen = None
    /\ \A r \in Runners : \A id \in (0..MaxJobs) \ JOBS[r] :
            get_job_status(r, id) = NotFound

\* A request for the id of a KVM job deleted while its task was still running
\* was answered.
C12_Witness ==
    /\ poll.pc = "done" /\ poll.route = "migration_status" /\ ~poll.known
    /\ poll.id \in Ids /\ kind[poll.id] = "kvm"
    /\ ~Ended(poll.id)
    /\ poll.code = 404

\* C13: a status request racing clear_job ends in one of two ways only: it
\* returns the complete record (200), or it fails with the not-found error
\* (SSHRunnerError, 404); no interleaving ends with any other error.
C13_GetRacingDeleteIsAtomic ==
    (poll.pc = "done" /\ poll.route = "migration_status") =>
        \/ /\ poll.code = 200 /\ poll.error = ""
           /\ poll.seen # None
           /\ DOMAIN poll.seen[1] = {"status", "logs", "started_at", "finished_at", "exit_code"}
        \/ /\ poll.code = 404 /\ poll.error = "SSHRunnerError"
           /\ poll.seen = None

\* C14: the value get_job_status returned does not change afterwards: reading
\* the returned object at any later moment yields what it held when the call
\* returned, whatever the job task has written to the record since.
C14_ReturnedValueIsSnapshot ==
    (poll.pc = "done" /\ poll.job # None) => ValueOf(poll.job[1]) = poll.seen[1]

\* C15: a response that shows status 'finished' or 'failed' carries the job's
\* final logs: the job's logs never differ afterwards from the logs of that
\* response, and a response showing an exit code shows the exit line.
C15_TerminalResponseHasFinalLogs ==
    (poll.pc = "done" /\ poll.code = 200 /\ Terminal(poll.seen[1].status)) =>
        /\ logs[poll.id] = poll.seen[1].logs
        /\ poll.seen[1].exit_code # None =>
              \E i \in DOMAIN poll.seen[1].logs :
                  poll.seen[1].logs[i] = ExitLine(kind[poll.id], poll.seen[1].exit_code[1])

\* The steps of the pipeline proper, cleanup and close excluded.
Pipeline == {"connect", "open_sftp", "resolve", "put_script", "config", "exec"}

\* Positions of the calls of step s in the history of job j.
CallsOf(j, s) == {i \in DOMAIN attempts[j] : attempts[j][i][1] = s}

\* C16: within one job every pipeline step (connect, open the upload channel,
\* resolve the script, upload the script, upload the configuration, execute) is
\* attempted at most once; after a pipeline step failed no pipeline step is
\* attempted; the script is executed only after the connect and the script
\* upload of the same job succeeded.
C16_NoRetryNoStepAfterFailure ==
    \A j \in Ids :
        /\ \A s \in Pipeline : Cardinality(CallsOf(j, s)) <= 1
        /\ \A i \in DOMAIN attempts[j] : \A k \in DOMAIN attempts[j] :
              (i < k /\ attempts[j][i] \in Pipeline \X {"fail"}) =>
                  attempts[j][k][1] \notin Pipeline
        /\ \A k \in CallsOf(j, "exec") :
              /\ \E i \in 1..(k - 1) : attempts[j][i] = <<"connect", "ok">>
              /\ \E i \in 1..(k - 1) : attempts[j][i] = <<"put_script", "ok">>
        /\ raised[j] # <<>> => pc[j] \notin Pipeline

\* A job whose script upload failed has ended: it connected once, never
\* executed anything, and is 'failed'.
C16_Witness ==
    \E j \in Ids :
        /\ Ended(j)
        /\ <<"put_script", "fail">> \in Range(attempts[j])
        /\ CallsOf(j, "exec") = {}
        /\ Cardinality(CallsOf(j, "connect")) = 1
        /\ Present(j) /\ rec[j].status = "failed"

\* C17: the script is resolved before the transport session is opened: a job
\* whose script is missing at the primary and at the fallback path ends
\* 'failed' with a log line naming the missing script and has made no
\* connection attempt, and no job connects before it resolved its script.
C17_ResolveBeforeConnect ==
    \A j \in Ids :
        /\ (Ended(j) /\ Present(j) /\ <<"resolve", "fail">> \in Range(attempts[j])) =>
              /\ rec[j].status = "failed"
              /\ \E i \in DOMAIN logs[j] :
                    NamesFailure(logs[j][i], MissingScript(kind[j])[1])
              /\ CallsOf(j, "connect") = {}
        /\ \A k \in CallsOf(j, "connect") : \E i \in 1..(k - 1) : attempts[j][i][1] = "resolve"

\* The steps that remove the uploaded files, or open the channel to do so.
Removal == {"cleanup_open", "rm_script", "rm_config", "h_cleanup"}

\* Job j's task tried to remove its uploaded files after it uploaded the script.
RemovalAttempted(j) ==
    \E i \in DOMAIN attempts[j] : \E k \in DOMAIN attempts[j] :
        /\ attempts[j][i] = <<"put_script", "ok">>
        /\ i < k
        /\ attempts[j][k][1] \in Removal

\* C18: every job of either runner that uploaded the script has attempted to
\* remove the uploaded files by the time its task ends, whatever the exit path
\* (exit code 0, non-zero exit code, exception after the upload).
C18_CleanupAttemptedOnEveryPath ==
    \A j \in Ids :
        (Ended(j) /\ <<"put_script", "ok">> \in Range(attempts[j])) => RemovalAttempted(j)

\* The step taken is a removal step of job j that failed.
RemovalFails(j) ==
    /\ pc[j] \in Removal
    /\ attempts'[j] = Append(attempts[j], <<pc[j], "fail">>)

\* C19: a failed removal of an uploaded file, or a failed opening of the
\* channel used for the removal, leaves the job's status and exit_code as they
\* were and appends one warning line to the logs, on the success path and on
\* the exception path alike.
C19_CleanupFailureLoggedNotFatal ==
    [][\A j \in Ids : RemovalFails(j) =>
          /\ rec'[j].status = rec[j].status
          /\ rec'[j].exit_code = rec[j].exit_code
          /\ Len(logs'[j]) = Len(logs[j]) + 1
          /\ logs'[j][Len(logs'[j])][1] \in {"Warning: cleanup failed: ",
                                             "Warning: could not delete "}]_vars

\* The steps that call client.close().
Closing == {"close", "h_close", "finally", "finally_exc"}

\* C20: every task that created a transport session has called close() on it
\* by the time it ends, on every exit path; the session is closed at the end
\* unless the last close() call itself raised.
C20_SessionClosedOnEveryPath ==
    \A j \in Ids :
        (Ended(j) /\ client[j] # "None") =>
            /\ \E i \in DOMAIN attempts[j] : attempts[j][i][1] \in Closing
            /\ \/ client[j] = "closed"
               \/ attempts[j][Len(attempts[j])] \in Closing \X {"fail"}

\* A task whose exec_command raised has ended with its session closed.
C20_Witness ==
    \E j \in Ids :
        /\ Ended(j)
        /\ <<"exec", "fail">> \in Range(attempts[j])
        /\ client[j] = "closed"

\* C21: finished_at is written last: in every state in which a job's
\* finished_at is set, its session (if one was created) is closed, and the
\* removal of the files it uploaded has been attempted.
C21_FinishedAtWrittenLast ==
    \A j \in Ids :
        (j <= issued /\ Present(j) /\ rec[j].finished_at # None) =>
            /\ client[j] \in {"None", "closed"}
            /\ <<"put_script", "ok">> \in Range(attempts[j]) => RemovalAttempted(j)

\* The task of job j found no local configuration file.
ConfigAbsent(j) ==
    \E i \in DOMAIN logs[j] : logs[j][i][1] = "Warning: Config.json not found at "

\* The log line is a warning that names the configuration file.
WarnsAboutConfig(line) ==
    /\ line[1] \in {"Warning: Config.json not found at ", "Warning: could not delete "}
    /\ "config.json" \in Range(line)

\* C22: a job that found no local configuration file and received the exit
\* code of the remote script ends 'finished' for code 0 and 'failed' otherwise;
\* no exception is raised by the missing file; and the final log holds exactly
\* one warning line about the configuration.
C22_ConfigAbsentIsOnlyAWarning ==
    \A j \in Ids :
        (Ended(j) /\ Present(j) /\ ConfigAbsent(j)) =>
            /\ rec[j].exit_code # None => rec[j].status = StatusFor(rec[j].exit_code[1])
            /\ \A i \in DOMAIN raised[j] : raised[j][i][1] # "config"
            /\ Cardinality({i \in DOMAIN logs[j] : WarnsAboutConfig(logs[j][i])}) = 1

\* sftp.put(local_script_path, remote_script): the local file job j uploaded.
Uploaded(j) ==
    IF \E i \in DOMAIN attempts[j] : attempts[j][i][1] = "put_script" /\ script[j] # ""
    THEN Some(script[j]) ELSE None

\* The steps whose failure no handler turns into a status: the cleanup, whose
\* exceptions are caught on the spot, and close() outside the try block.
AfterOutcome == Removal \cup {"cleanup_close", "h_close", "finally", "finally_exc"}

\* The outcome the later steps give job j: 'failed' if a step inside the try
\* block raised, else the status of the exit code.
OutcomeOfLaterSteps(j) ==
    IF \E i \in DOMAIN raised[j] : raised[j][i][1] \notin AfterOutcome
    THEN rec[j].status = "failed"
    ELSE rec[j].exit_code # None /\ rec[j].status = StatusFor(rec[j].exit_code[1])

\* C23: a job whose primary script path is absent and whose fallback exists
\* logs that the fallback is used, uploads the fallback file, raises nothing at
\* the resolution, and goes on through the same steps as with the primary: it
\* ends with the outcome its later steps give, as a job using the primary does.
C23_FallbackProceedsNormally ==
    \A j \in Ids :
        /\ script[j] = "fallback" =>
              /\ \E i \in DOMAIN logs[j] :
                    /\ logs[j][i] = <<"Local script not found at ", "primary",
                                      ", falling back to ", "fallback">>
                    /\ i < Len(logs[j]) /\ logs[j][i + 1] = <<"Uploading ", "fallback">>
              /\ \A i \in DOMAIN raised[j] : raised[j][i][1] # "resolve"
              /\ Uploaded(j) \in {None, Some("fallback")}
              /\ pc[j] # "resolve"
        /\ (script[j] \in {"primary", "fallback"} /\ Ended(j) /\ Present(j)) =>
              OutcomeOfLaterSteps(j)

\* A job that used the fallback uploaded it, ran the remote script to exit
\* code 0 and ended 'finished'.
C23_Witness ==
    \E j \in Ids :
        /\ script[j] = "fallback" /\ Uploaded(j) = Some("fallback")
        /\ Ended(j) /\ Present(j)
        /\ rec[j].status = "finished" /\ rec[j].exit_code = Some(0)

\* The log line is a tag followed by the text of one line of stderr.
StderrTagged(line) == Len(line) = 2 /\ line[1] = "[STDERR] "

\* C24: every line of the remote command's stderr enters the log with a tag
\* of its own, in both runners: each line a stderr-draining step appends is a
\* tagged line, so that a line of stderr is told from a line of stdout by the
\* line alone.
C24_StderrLinesTagged ==
    [][\A j \in Ids :
         pc[j] \in {"stderr", "stderr_extend"} =>
             \A i \in (Len(logs[j]) + 1)..Len(logs'[j]) : StderrTagged(logs'[j][i])]_vars

\* The task of job j is blocked in a read of the remote command's output:
\* stdout.readline with no unread stdout line, stderr.readline with no unread
\* stderr line, or ssh_runner's stderr.read(), before end-of-file.
Waiting(j) ==
    /\ ~proc[j].eof
    /\ \/ pc[j] = "stdout" /\ nread[j][1] = proc[j].out
       \/ pc[j] = "stderr" /\ kind[j] = "kvm" /\ nread[j][2] = proc[j].err
       \/ pc[j] = "stderr" /\ kind[j] = "pve"

\* Lines of the log of job j that carry a line of the given stream.
Logged(j, text) == Cardinality({i \in DOMAIN logs[j] : logs[j][i][Len(logs[j][i])] = text})

\* C25: output is streamed as it arrives: whenever the task of a running job
\* is blocked waiting for more output of the remote command, every line the
\* command has written so far, to stdout or to stderr, is in the log; no line
\* waits for the command to end or for the other stream to reach end-of-file.
C25_OutputStreamedAsItArrives ==
    \A j \in Ids :
        (Waiting(j) /\ Present(j) /\ rec[j].status = "running") =>
            /\ Logged(j, "out") = proc[j].out
            /\ Logged(j, "err") = proc[j].err

\* C26: a start call returns the id without waiting for the task: the return is
\* possible in every state after the record was created, whatever the task has
\* done; when it returns, the registry of its runner holds the record; and
\* from then on, as long as no clear_job was called on the id, the registry
\* holds it, a status request for it is answered 200 with the record, and the
\* record reads 'queued' while the task has not taken its first step.
C26_StartReturnsAtOnceWithRecord ==
    /\ [](\A j \in (1..issued) \ call.returned : ENABLED StartReturns(j))
    /\ [][\A j \in call.returned' \ call.returned : j \in JOBS[kind[j]]]_vars
    /\ [](\A j \in call.returned \ call.cleared :
            /\ get_job_status(kind[j], j) # NotFound
            /\ pc[j] = "set_running" => get_job_status(kind[j], j).status = "queued"
            /\ (poll.pc = "done" /\ poll.route = "migration_status" /\ poll.id = j) =>
                  (poll.code = 200 /\ poll.seen # None))

\* A status request for a returned id was answered 200 with status 'queued'
\* while the task had not taken a step.
C26_Witness ==
    \E j \in call.returned :
        /\ pc[j] = "set_running"
        /\ poll.pc = "done" /\ poll.route = "migration_status"
        /\ poll.id = j /\ poll.code = 200
        /\ poll.seen[1].status = "queued"

\* C27: without paramiko a start call of either runner fails at once with
\* SSHRunnerError: the call changes neither registry, creates no record and
\* launches no task; no job exists in such a deployment.
C27_MissingLibraryFailsStart ==
    /\ [][(call'.error = "SSHRunnerError" /\ call.error # "SSHRunnerError") =>
            /\ ~paramiko
            /\ UNCHANGED <<JOBS, rec, logs, issued, kind, pc, client>>]_vars
    /\ [](~paramiko =>
            /\ issued = 0
            /\ \A r \in Runners : JOBS[r] = {}
            /\ \A j \in Ids : pc[j] = "unborn" /\ rec[j] = Blank /\ logs[j] = <<>>)

\* A start call failed for want of the library.
C27_Witness == ~paramiko /\ call.error = "SSHRunnerError" /\ call.returned = {}

\* C28: for every id a start call of either runner returned and no clear_job
\* deleted, download-log answers with that job's log lines joined by newlines;
\* it fails only for an id that names no job.
C28_DownloadLogForEveryJob ==
    (poll.pc = "done" /\ poll.route = "download_log") =>
        /\ poll.id \in call.returned \ call.cleared =>
              /\ poll.code = 200
              /\ poll.body = Join(poll.seen[1].logs)
              /\ IsPrefix(poll.seen[1].logs, logs[poll.id])
        /\ poll.code # 200 => poll.id \notin call.returned \ call.cleared

\* The failure kind a log line records: the part of the line the runner
\* writes itself; what follows is str(e), the text the library gave the
\* exception.
FailureKind(line) == line[1]

\* The kinds recorded in the log of job j.
KindsRecorded(j) == {FailureKind(logs[j][i]) : i \in {k \in DOMAIN logs[j] : ErrorLine(logs[j][k])}}

\* The connect of job j was the first step to fail, with an exception of type t.
ConnectFailedWith(j, t) == raised[j] # <<>> /\ raised[j][1] = <<"connect", t>>

C30_ReadersNeverMutate ==
    [][poll' # poll => UNCHANGED <<JOBS, rec, logs, issued, kind, pc>>]_vars

\* A route has answered 200 for a job that was running, and the record is
\* still there, running, its log an extension of the one read.
C30_Witness ==
    /\ poll.pc = "done" /\ poll.code = 200 /\ poll.id \in Ids
    /\ poll.seen[1].status = "running"
    /\ Present(poll.id) /\ rec[poll.id].status = "running"
    /\ IsPrefix(poll.seen[1].logs, logs[poll.id])

\* C31: clear_job(id) on an id that is not in the registry raises no error and
\* leaves the registry unchanged, also when two calls for the same id run
\* concurrently; a call never removes or alters the record of another id.
C31_ClearAbsentIsNoOp ==
    [][\A t \in Callers : clr'[t] # clr[t] =>
          /\ clr'[t].error = ""
          /\ clr'[t].id \notin JOBS["kvm"] => JOBS' = JOBS
          /\ \A k \in Ids \ {clr'[t].id} :
                /\ \A r \in Runners : (k \in JOBS'[r]) = (k \in JOBS[r])
                /\ rec'[k] = rec[k]
                /\ logs'[k] = logs[k]]_vars

\* The document in config.json (the defaults while there is no file).
OnDisk(d) == IF d.config = 0 THEN DEFAULT_CONFIG ELSE Parse(d.data[d.config])

\* Section s of the file d holds v.
Holds(d, s, v) == OnDisk(d) # Broken /\ OnDisk(d)[s] = v

\* Section s is the same in the files d and e.
Same(d, e, s) == OnDisk(d) # Broken /\ OnDisk(e) # Broken /\ OnDisk(d)[s] = OnDisk(e)[s]

Quiet == \A t \in Callers : req[t].pc = "rest"

\* C32: an updater changes only its own section of config.json, and once the
\* concurrent calls have returned every section holds the value written by the
\* last completed call of the updater that owns it.
C32_UpdatersKeepOtherSections ==
    /\ [][\A t \in Callers :
            (req[t].pc = "replace" /\ req'[t].result = "True") =>
                \A s \in Sections \ {req[t].kind.section} : Same(disk, disk', s)]_vars
    /\ [](Quiet => \A s \in Sections : Holds(disk, s, saved.last[s]))

\* C33: under fair scheduling, with every call and the remote command
\* completing or failing, every started job eventually has status 'finished'
\* or 'failed' and finished_at set, also when the command writes to stderr
\* what the channel does not hold while its stdout is still open.
C33_EveryJobEventuallyEnds ==
    \A j \in Ids :
        (j <= issued) ~> (Terminal(rec[j].status) /\ rec[j].finished_at # None)

\* C34: in every reachable state of every job, status 'finished' implies
\* exit_code = 0, and status 'failed' with an exit_code set implies
\* exit_code # 0.
C34_StatusAgreesWithExitCode ==
    \A j \in Ids :
        (j <= issued /\ Present(j)) =>
            /\ rec[j].status = "finished" => rec[j].exit_code = Some(0)
            /\ (rec[j].status = "failed" /\ rec[j].exit_code # None) => rec[j].exit_code # Some(0)

\* A line of the log that comes from the remote stderr, or the marker that
\* ssh_runner puts before them.
FromStderr(line) == line[Len(line)] = "err" \/ line = <<"--- STDERR ---">>

FromStdout(line) == line = <<"out">>

\* C35: in the log of a job every line taken from the remote stdout precedes
\* every line taken from the remote stderr and the '--- STDERR ---' marker;
\* while the task is still reading stdout it has read nothing from stderr.
C35_StdoutBeforeStderr ==
    \A j \in Ids :
        /\ \A i \in DOMAIN logs[j] : \A k \in DOMAIN logs[j] :
              (FromStderr(logs[j][i]) /\ FromStdout(logs[j][k])) => k < i
        /\ pc[j] = "stdout" =>
              /\ nread[j][2] = 0
              /\ \A i \in DOMAIN logs[j] : ~FromStderr(logs[j][i])

C35_Witness ==
    \E j \in Ids : \E i \in DOMAIN logs[j] : \E k \in DOMAIN logs[j] :
        /\ i < k
        /\ FromStdout(logs[j][i])
        /\ FromStderr(logs[j][k])
        /\ Ended(j)

\* Job k's task has put file f into remote_path.
UploadedBy(k, f) ==
    \/ f = ScriptName(kind[k]) /\ <<"put_script", "ok">> \in Range(attempts[k])
    \/ f = "config.json" /\ <<"config", "ok">> \in Range(attempts[k])

\* Job k's remote command is still to be started or has not ended yet.
InUse(k) ==
    pc[k] \in {"config", "sftp_close", "exec", "stdout", "stderr", "stderr_marker",
               "stderr_extend", "recv"}

\* C36: two Proxmox jobs against the same host and remote_path do not interfere
\* through the remote files: a step of job j removes only files that j
\* uploaded itself, and never a file that another job has uploaded and has
\* not finished executing.
C36_JobsKeepApartOnRemoteHost ==
    [][\A j \in Ids : \A f \in remote \ remote' :
          pc'[j] # pc[j] =>
              /\ UploadedBy(j, f)
              /\ \A k \in Ids \ {j} : ~(UploadedBy(k, f) /\ InUse(k))]_vars

\* C37: a record that clear_job removed never reappears: no step puts an id
\* that was issued and is gone back into the KVM registry, and every
\* get_job_status for an id passed to clear_job fails with not-found, also
\* while the task of the deleted job goes on writing to its record.
C37_ClearedRecordStaysGone ==
    /\ [][\A j \in 1..issued : j \notin JOBS["kvm"] => j \notin JOBS'["kvm"]]_vars
    /\ [](\A j \in call.cleared : get_job_status("kvm", j) = NotFound)

C37_Witness ==
    \E j \in call.cleared :
        /\ kind[j] = "kvm"
        /\ get_job_status("kvm", j) = NotFound
        /\ \E i \in DOMAIN raised[j] :
              raised[j][i][2] = KeyError.type /\ raised[j][i][1] # "set_running"
        /\ Ended(j)

\* C38: a KVM task whose record clear_job removed, before it started, while it
\* was running or just before it recorded the outcome, ends without an
\* unhandled error and with its transport session closed.
C38_ClearedTaskEndsCleanly ==
    \A j \in call.cleared :
        (kind[j] = "kvm" /\ Ended(j)) =>
            /\ pc[j] = "done"
            /\ client[j] \in {"None", "closed"}

\* C39: config.json is replaced atomically: what a reader of the file gets
\* (_load_config, or the upload of a job task) is always one complete document
\* that a single _save_config call wrote, never an empty, partial or mixed
\* one, also when two _save_config calls run concurrently.
C39_ConfigReplacedAtomically ==
    \A t \in Callers : req[t].seen # None => req[t].seen[1] \in saved.texts

====
